---- MODULE Spec2Model ----
\* Model of src/src/crypto/alpha/alphasecret.rs: the Alpha keyring
\* (AlphaSecret / AlphaPublic): key generation, sign / verify, hybrid
\* encrypt / decrypt and DER serialization.
\*
\* The external primitives are modelled as follows.
\*   - X25519 and the Ed25519 key derivation compute in the subgroup of prime
\*     order GroupQ of the integers modulo GroupP generated by GroupG; a key is
\*     the 32-byte little-endian encoding of a group element or scalar.
\*   - OsRng is a stream that does not repeat an output within its period.
\*   - PBKDF2, Poly1305 and the Ed25519 signature are collision free on the
\*     modelled domain (the ideal-primitive assumption); ChaCha20 is a XOR
\*     with a key-dependent stream.
EXTENDS Integers, Sequences, FiniteSets, TLC

\* ---------------------------------------------------------------- bounds
MaxKeyrings == 2
MaxEncrypts == 2
MaxPlainLen == 2

\* ------------------------------------------------------- program constants
SEED_LEN == 32
KEY_LEN == 32
TAG_LEN == 16
SIG_LEN == 64
ITERATIONS == 1000
VERSION == 1
TYPE_SECRET == 1

\* toy group standing in for Curve25519
GroupP == 47
GroupQ == 23
GroupG == 2

\* 0xfe73ba2003, as its big-endian bytes (the value exceeds 32 bits)
MAGIC == <<254, 115, 186, 32, 3>>
salt == <<0>>
NONCE == <<0, 0, 0, 0, 0, 0, 0, 0, 0, 0, 0, 1>>

\* ------------------------------------------------------------ byte helpers
Byte == 0..255

Zeros(n) == [i \in 1..n |-> 0]

RECURSIVE LE(_, _)
\* little-endian encoding of n in len bytes
LE(n, len) == IF len = 0 THEN <<>> ELSE <<n % 256>> \o LE(n \div 256, len - 1)

RECURSIVE DecodeMod(_, _)
\* value of a little-endian byte string, reduced modulo m
DecodeMod(bytes, m) ==
  IF bytes = <<>> THEN 0
  ELSE (bytes[1] + 256 * DecodeMod(Tail(bytes), m)) % m

RECURSIVE ModExp(_, _, _)
ModExp(b, e, m) == IF e = 0 THEN 1 % m ELSE (b * ModExp(b, e - 1, m)) % m

RECURSIVE Xor(_, _)
Xor(a, b) ==
  IF a = 0 /\ b = 0 THEN 0
  ELSE (((a % 2) + (b % 2)) % 2) + 2 * Xor(a \div 2, b \div 2)

RECURSIVE SumBytes(_)
SumBytes(bytes) == IF bytes = <<>> THEN 0 ELSE bytes[1] + SumBytes(Tail(bytes))

Take(s, n) == SubSeq(s, 1, n)
Drop(s, n) == SubSeq(s, n + 1, Len(s))

\* ------------------------------------------------------------------ OsRng
RngPeriod == GroupQ - 1
RngStep == 7
\* the value produced in generator state s: 32 random bytes, never zero
Gen(s) == LE(1 + s, SEED_LEN)
Advance(s) == (s + RngStep) % RngPeriod

\* ----------------------------------------------------------------- x25519
\* the scalar a secret's bytes stand for
Scalar(secret) == DecodeMod(secret, GroupQ)
\* x25519::PublicKey::from(&secret)
X25519Public(secret) == LE(ModExp(GroupG, Scalar(secret), GroupP), KEY_LEN)
\* secret.diffie_hellman(&public); the public key is the raw 32 bytes given
diffie_hellman(secret, public) ==
  LE(ModExp(DecodeMod(public, GroupP), Scalar(secret), GroupP), KEY_LEN)

\* ---------------------------------------------------------------- ed25519
\* the secret scalar expanded from a seed (hash and clamp)
ExpandSeed(seed) == (5 * DecodeMod(seed, GroupQ)) % GroupQ
\* Ed25519KeyPair::from_seed_unchecked(&seed)
Ed25519KeyPair(seed) ==
  [scalar |-> ExpandSeed(seed),
   public_key |-> LE(ModExp(GroupG, ExpandSeed(seed), GroupP), KEY_LEN)]

\* the one signature that verifies for a public key and a message
Ed25519Sig(public_key, bytes) ==
  LET head == <<(public_key[1] + 11) % 256, Len(bytes)>> \o
              [i \in 1..Len(bytes) |-> Xor(bytes[i], public_key[1])]
  IN  head \o Zeros(SIG_LEN - Len(head))

\* keypair.sign(bytes)
Ed25519Sign(keypair, bytes) == Ed25519Sig(keypair.public_key, bytes)

\* UnparsedPublicKey::verify: Ok or Err
RingVerify(public_key, bytes, signature) ==
  IF Len(signature) = SIG_LEN /\ Len(public_key) = KEY_LEN
     /\ signature = Ed25519Sig(public_key, bytes)
  THEN "Ok" ELSE "Err"

\* ------------------------------------------------------------ AlphaSecret
\* fault: the cached agreement public key is computed from the signing seed
new_stale(r) ==
  LET ed25519_seed == Gen(r)
      ed25519_keypair == Ed25519KeyPair(ed25519_seed)
      x25519_secret == Gen(Advance(r))
  IN  [ed25519_seed |-> ed25519_seed,
       ed25519_keypair |-> ed25519_keypair,
       x25519_secret |-> x25519_secret,
       pubkey |-> [ed25519_pubkey |-> ed25519_keypair.public_key,
                   x25519_pubkey |-> X25519Public(ed25519_seed)]]

new(r) ==
  LET ed25519_seed == Gen(r)
      ed25519_keypair == Ed25519KeyPair(ed25519_seed)
      x25519_secret == Gen(Advance(r))
      ed25519_pubkey == ed25519_keypair.public_key
      x25519_pubkey == X25519Public(x25519_secret)
  IN  [ed25519_seed |-> ed25519_seed,
       ed25519_keypair |-> ed25519_keypair,
       x25519_secret |-> x25519_secret,
       pubkey |-> [ed25519_pubkey |-> ed25519_pubkey,
                   x25519_pubkey |-> x25519_pubkey]]

public_key(self) == self.pubkey

signing_public_key(pub) == pub.ed25519_pubkey

encryption_public_key(pub) == pub.x25519_pubkey

sign(self, bytes) == Ed25519Sign(self.ed25519_keypair, bytes)

\* fault: verification against the agreement key
verify_wrong_key(pub, bytes, signature) ==
  [panic |-> FALSE,
   ret |-> RingVerify(encryption_public_key(pub), bytes, signature) = "Ok"]

\* fault: the verification result is unwrapped
verify_unwrap(pub, bytes, signature) ==
  IF RingVerify(signing_public_key(pub), bytes, signature) = "Ok"
  THEN [panic |-> FALSE, ret |-> TRUE]
  ELSE [panic |-> TRUE, ret |-> FALSE]

\* the call's result: a boolean return value, or a panic
verify(pub, bytes, signature) ==
  [panic |-> FALSE,
   ret |-> RingVerify(signing_public_key(pub), bytes, signature) = "Ok"]

\* ------------------------------------------------------- ring::pbkdf2, aead
\* the i-th 32-byte block of the key-derivation input
Block(input, i) == SubSeq(input, 32 * (i - 1) + 1, 32 * i)

\* pbkdf2::derive(PBKDF2_HMAC_SHA256, iterations, salt, secret, out)
Pbkdf2Derive(iterations, slt, secret, outLen) ==
  [j \in 1..outLen |->
     IF 32 * j <= Len(secret)
     THEN (DecodeMod(Block(secret, j), 251) + SumBytes(slt) + iterations + j) % 256
     ELSE 0]

\* the ChaCha20 key stream's i-th byte
KeyStream(key, nonce, i) ==
  (key[1] + 3 * key[2] + 5 * key[3] + SumBytes(nonce) + i) % 256

ChaCha20(key, nonce, data) ==
  [i \in 1..Len(data) |-> Xor(data[i], KeyStream(key, nonce, i))]

\* the Poly1305 tag of a ciphertext body
Poly1305(key, nonce, body) ==
  LET head == <<key[1], key[2], key[3], (Len(body) + SumBytes(nonce)) % 256>>
      room == TAG_LEN - Len(head)
  IN  head \o [i \in 1..room |-> IF i <= Len(body) THEN body[i] ELSE 0]

\* LessSafeKey::seal_in_place_append_tag, with no associated data
seal_in_place_append_tag(key, nonce, in_out) ==
  LET body == ChaCha20(key, nonce, in_out)
  IN  body \o Poly1305(key, nonce, body)

\* LessSafeKey::open_in_place, with no associated data: Ok(plaintext) or Err
open_in_place(key, nonce, in_out) ==
  IF Len(in_out) < TAG_LEN THEN [ok |-> FALSE, data |-> <<>>]
  ELSE LET body == Take(in_out, Len(in_out) - TAG_LEN)
           tag == Drop(in_out, Len(in_out) - TAG_LEN)
       IN  IF tag = Poly1305(key, nonce, body)
           THEN [ok |-> TRUE, data |-> ChaCha20(key, nonce, body)]
           ELSE [ok |-> FALSE, data |-> <<>>]

\* ------------------------------------------------- AlphaSecret, continued
\* the outcome of a call: a returned value, or a panic with its message
Returned(v) == [kind |-> "returned", value |-> v, msg |-> ""]
Panicked(m) == [kind |-> "panic", value |-> <<>>, msg |-> m]

\* fault: the key is derived with the sender's agreement public key
decrypt_sender_key(self, enc_bytes, sender_pubkey) ==
  IF Len(enc_bytes.ephemeral_pubkey) < KEY_LEN
  THEN [key |-> <<>>, out |-> Panicked("range end index out of range")]
  ELSE
    LET ephemeral_pub == Take(enc_bytes.ephemeral_pubkey, KEY_LEN)
        shared_secret == diffie_hellman(self.x25519_secret, ephemeral_pub)
        kdf_input == shared_secret \o ephemeral_pub
                       \o encryption_public_key(sender_pubkey)
        key == Pbkdf2Derive(ITERATIONS, salt, kdf_input, KEY_LEN)
        opened == open_in_place(key, NONCE, enc_bytes.data)
    IN  [key |-> key,
         out |-> IF opened.ok THEN Returned(opened.data)
                 ELSE Panicked("opening failed")]

\* fault: the ephemeral public key precedes the shared secret
decrypt_kdf_order(self, enc_bytes, sender_pubkey) ==
  IF Len(enc_bytes.ephemeral_pubkey) < KEY_LEN
  THEN [key |-> <<>>, out |-> Panicked("range end index out of range")]
  ELSE
    LET ephemeral_pub == Take(enc_bytes.ephemeral_pubkey, KEY_LEN)
        shared_secret == diffie_hellman(self.x25519_secret, ephemeral_pub)
        kdf_input == ephemeral_pub \o shared_secret
                       \o encryption_public_key(public_key(self))
        key == Pbkdf2Derive(ITERATIONS, salt, kdf_input, KEY_LEN)
        opened == open_in_place(key, NONCE, enc_bytes.data)
    IN  [key |-> key,
         out |-> IF opened.ok THEN Returned(opened.data)
                 ELSE Panicked("opening failed")]

\* fault: a failed open hands back the buffer
decrypt_unchecked(self, enc_bytes, sender_pubkey) ==
  IF Len(enc_bytes.ephemeral_pubkey) < KEY_LEN
  THEN [key |-> <<>>, out |-> Panicked("range end index out of range")]
  ELSE
    LET ephemeral_pub == Take(enc_bytes.ephemeral_pubkey, KEY_LEN)
        shared_secret == diffie_hellman(self.x25519_secret, ephemeral_pub)
        kdf_input == shared_secret \o ephemeral_pub
                       \o encryption_public_key(public_key(self))
        key == Pbkdf2Derive(ITERATIONS, salt, kdf_input, KEY_LEN)
        opened == open_in_place(key, NONCE, enc_bytes.data)
    IN  [key |-> key,
         out |-> IF opened.ok THEN Returned(opened.data)
                 ELSE Returned(enc_bytes.data)]

\* fault: the tag is cut off and the body deciphered without a check
decrypt_strip_tag(self, enc_bytes, sender_pubkey) ==
  IF Len(enc_bytes.ephemeral_pubkey) < KEY_LEN
  THEN [key |-> <<>>, out |-> Panicked("range end index out of range")]
  ELSE
    LET in_out == enc_bytes.data
        ephemeral_pub == Take(enc_bytes.ephemeral_pubkey, KEY_LEN)
        shared_secret == diffie_hellman(self.x25519_secret, ephemeral_pub)
        kdf_input == shared_secret \o ephemeral_pub
                       \o encryption_public_key(public_key(self))
        key == Pbkdf2Derive(ITERATIONS, salt, kdf_input, KEY_LEN)
    IN  [key |-> key,
         out |-> IF Len(in_out) < TAG_LEN THEN Panicked("opening failed")
                 ELSE Returned(ChaCha20(key, NONCE,
                                        Take(in_out, Len(in_out) - TAG_LEN)))]

\* decrypt's locals and outcome; _sender_pubkey is unused
decrypt(self, enc_bytes, sender_pubkey) ==
  IF Len(enc_bytes.ephemeral_pubkey) < KEY_LEN
  THEN [key |-> <<>>, out |-> Panicked("range end index out of range")]
  ELSE
    LET in_out == enc_bytes.data
        ephemeral_pub == Take(enc_bytes.ephemeral_pubkey, KEY_LEN)
        shared_secret == diffie_hellman(self.x25519_secret, ephemeral_pub)
        kdf_input == shared_secret \o ephemeral_pub
                       \o encryption_public_key(public_key(self))
        key == Pbkdf2Derive(ITERATIONS, salt, kdf_input, KEY_LEN)
        opened == open_in_place(key, NONCE, in_out)
    IN  [key |-> key,
         out |-> IF opened.ok THEN Returned(opened.data)
                 ELSE Panicked("opening failed")]

\* fault: the keyring's static secret serves as the ephemeral key
encrypt_static(self, plain_bytes, peer_public, r) ==
  LET ephemeral_key == self.x25519_secret
      ephemeral_pub == X25519Public(ephemeral_key)
      shared_secret == diffie_hellman(ephemeral_key, peer_public.x25519_pubkey)
      kdf_input == shared_secret \o ephemeral_pub \o peer_public.x25519_pubkey
      key == Pbkdf2Derive(ITERATIONS, salt, kdf_input, KEY_LEN)
      in_out == seal_in_place_append_tag(key, NONCE, plain_bytes)
  IN  [ephemeral_key |-> ephemeral_key,
       key |-> key,
       nonce |-> NONCE,
       out |-> [ephemeral_pubkey |-> ephemeral_pub, data |-> in_out]]

\* encrypt's locals and result; r is the state of OsRng at the call
encrypt(self, plain_bytes, peer_public, r) ==
  LET ephemeral_key == Gen(r)
      ephemeral_pub == X25519Public(ephemeral_key)
      shared_secret == diffie_hellman(ephemeral_key, peer_public.x25519_pubkey)
      kdf_input == shared_secret \o ephemeral_pub \o peer_public.x25519_pubkey
      key == Pbkdf2Derive(ITERATIONS, salt, kdf_input, KEY_LEN)
      in_out == seal_in_place_append_tag(key, NONCE, plain_bytes)
  IN  [ephemeral_key |-> ephemeral_key,
       key |-> key,
       nonce |-> NONCE,
       out |-> [ephemeral_pubkey |-> ephemeral_pub, data |-> in_out]]

\* ------------------------------------------------------------- yasna DER
DerLength(n) ==
  IF n < 128 THEN <<n>>
  ELSE IF n < 256 THEN <<129, n>>
  ELSE <<130, n \div 256, n % 256>>

DerTLV(tag, content) == <<tag>> \o DerLength(Len(content)) \o content

\* write_i64 / write_u8 of a non-negative value given as big-endian bytes
write_int(magnitude) ==
  DerTLV(2, IF magnitude[1] >= 128 THEN <<0>> \o magnitude ELSE magnitude)

write_bytes(bytes) == DerTLV(4, bytes)

write_sequence(content) == DerTLV(48, content)

\* fault: the agreement secret is written before the signing public key
serialize_swapped(self) ==
  write_sequence(
    write_int(MAGIC) \o write_int(<<TYPE_SECRET>>) \o write_int(<<VERSION>>)
    \o write_bytes(self.ed25519_seed)
    \o write_bytes(self.x25519_secret)
    \o write_bytes(self.ed25519_keypair.public_key)
    \o write_bytes(self.pubkey.x25519_pubkey))

serialize(self) ==
  write_sequence(
    write_int(MAGIC) \o write_int(<<TYPE_SECRET>>) \o write_int(<<VERSION>>)
    \o write_bytes(self.ed25519_seed)
    \o write_bytes(self.ed25519_keypair.public_key)
    \o write_bytes(self.x25519_secret)
    \o write_bytes(self.pubkey.x25519_pubkey))

\* ------------------------------------------------------------------ state
\* keyrings: struct AlphaSecret (lines 48-60); rng: OsRng (65, 133);
\* sent: struct Encrypted as built by encrypt (169-172); res: a call of the
\* Secret / Public traits and what it gave back
VARIABLES
  keyrings,  \* the AlphaSecret values constructed so far
  rng,       \* the state of the operating system's random generator
  sent,      \* one record per encrypt call: its arguments, locals and result
  res        \* the call in progress, with its arguments and outcome, if any

vars == <<keyrings, rng, sent, res>>

Ring == DOMAIN keyrings

\* the inputs callers pass
HELLO == <<104, 101, 108, 108, 111>>
Plaintexts == {Take(HELLO, n) : n \in 0..MaxPlainLen}
Messages == Plaintexts
RngSeeds == {0, 3, 12}
TamperMasks == {1, 128, 255}

\* an envelope as it reaches decrypt: untouched, or modified on the way
Tampers(enc) ==
  {[kind |-> "none", pos |-> 0, mask |-> 0]}
  \cup {[kind |-> "data_byte", pos |-> p, mask |-> m] :
          p \in 1..Len(enc.data), m \in TamperMasks}
  \cup {[kind |-> "eph_byte", pos |-> p, mask |-> 1] : p \in {1, KEY_LEN}}
  \cup {[kind |-> "eph_len", pos |-> n, mask |-> 0] :
          n \in {0, KEY_LEN - 1, KEY_LEN + 1}}

FewTampers(enc) ==
  {[kind |-> "none", pos |-> 0, mask |-> 0],
   [kind |-> "data_byte", pos |-> Len(enc.data), mask |-> 1],
   [kind |-> "eph_len", pos |-> KEY_LEN - 1, mask |-> 0]}

Resize(bytes, n) == [i \in 1..n |-> IF i <= Len(bytes) THEN bytes[i] ELSE 0]

FlipAt(bytes, p, m) == [bytes EXCEPT ![p] = Xor(bytes[p], m)]

Tampered(enc, t) ==
  CASE t.kind = "none" -> enc
    [] t.kind = "data_byte" -> [enc EXCEPT !.data = FlipAt(@, t.pos, t.mask)]
    [] t.kind = "eph_byte" ->
         [enc EXCEPT !.ephemeral_pubkey = FlipAt(@, t.pos, t.mask)]
    [] t.kind = "eph_len" -> [enc EXCEPT !.ephemeral_pubkey = Resize(@, t.pos)]

\* the signature bytes handed to verify: a keyring's signature of a message,
\* untouched, with one bit flipped, or cut or padded to another length
SigEdits ==
  {[kind |-> "none", pos |-> 0, mask |-> 0]}
  \cup {[kind |-> "flip", pos |-> p, mask |-> m] :
          p \in 1..SIG_LEN, m \in TamperMasks}
  \cup {[kind |-> "len", pos |-> n, mask |-> 0] :
          n \in {0, SIG_LEN - 1, SIG_LEN + 1}}

FewSigEdits ==
  {[kind |-> "none", pos |-> 0, mask |-> 0],
   [kind |-> "flip", pos |-> 1, mask |-> 1],
   [kind |-> "len", pos |-> SIG_LEN - 1, mask |-> 0]}

Edited(sig, e) ==
  CASE e.kind = "none" -> sig
    [] e.kind = "flip" -> FlipAt(sig, e.pos, e.mask)
    [] e.kind = "len" -> Resize(sig, e.pos)

Idle == [op |-> "none"]

Init ==
  /\ keyrings = <<>>
  /\ rng \in RngSeeds
  /\ sent = <<>>
  /\ res = Idle

\* -------------------------------------------------------------- operations
\* every operation is one synchronous call; Return hands its outcome back
New ==
  /\ res = Idle
  /\ Len(keyrings) < MaxKeyrings
  /\ keyrings' = Append(keyrings, new(rng))
  /\ rng' = Advance(Advance(rng))
  /\ res' = [op |-> "new", self |-> Len(keyrings) + 1]
  /\ UNCHANGED sent

PublicKey ==
  /\ res = Idle
  /\ \E k \in Ring :
       res' = [op |-> "public_key", self |-> k, out |-> public_key(keyrings[k])]
  /\ UNCHANGED <<keyrings, rng, sent>>

Sign ==
  /\ res = Idle
  /\ \E k \in Ring, m \in Messages :
       res' = [op |-> "sign", self |-> k, bytes |-> m,
               out |-> Returned(sign(keyrings[k], m))]
  /\ UNCHANGED <<keyrings, rng, sent>>

Verify(edits) ==
  /\ res = Idle
  /\ \E k \in Ring, m \in Messages, signer \in Ring, signed \in Messages,
        e \in edits :
       LET signature == Edited(sign(keyrings[signer], signed), e)
       IN  res' = [op |-> "verify", self |-> k, bytes |-> m,
                   signer |-> signer, signed |-> signed, edit |-> e,
                   signature |-> signature,
                   out |-> verify(public_key(keyrings[k]), m, signature)]
  /\ UNCHANGED <<keyrings, rng, sent>>

Encrypt(limit) ==
  /\ res = Idle
  /\ Len(sent) < limit
  /\ \E k \in Ring, peer \in Ring, p \in Plaintexts :
       LET call == encrypt(keyrings[k], p, public_key(keyrings[peer]), rng)
       IN  /\ sent' = Append(sent, [peer |-> peer, plain |-> p, rng |-> rng,
                                    call |-> call])
           /\ res' = [op |-> "encrypt", self |-> k, out |-> call.out]
  /\ rng' = Advance(rng)
  /\ UNCHANGED keyrings

Decrypt(all) ==
  /\ res = Idle
  /\ sent # <<>>
  /\ LET last == sent[Len(sent)]
         tampers == IF all THEN Tampers(last.call.out)
                    ELSE FewTampers(last.call.out)
     IN  \E k \in Ring, sender \in Ring, t \in tampers :
           LET enc == Tampered(last.call.out, t)
           IN  res' = [op |-> "decrypt", self |-> k, sender |-> sender,
                       tamper |-> t, enc |-> enc,
                       call |-> decrypt(keyrings[k], enc,
                                        public_key(keyrings[sender]))]
  /\ UNCHANGED <<keyrings, rng, sent>>

Serialize ==
  /\ res = Idle
  /\ \E k \in Ring :
       res' = [op |-> "serialize", self |-> k, stream |-> serialize(keyrings[k])]
  /\ UNCHANGED <<keyrings, rng, sent>>

Return ==
  /\ res # Idle
  /\ res' = Idle
  /\ UNCHANGED <<keyrings, rng, sent>>

\* every operation, on one envelope and a few of the modified inputs
Next ==
  \/ New
  \/ PublicKey
  \/ Sign
  \/ Verify(FewSigEdits)
  \/ Encrypt(1)
  \/ Decrypt(FALSE)
  \/ Serialize
  \/ Return

Spec == Init /\ [][Next]_vars

\* signing and verification, every modified signature
NextSign == New \/ Sign \/ Verify(SigEdits) \/ Return

SpecSign == Init /\ [][NextSign]_vars

\* one envelope, every modification of it, every keyring decrypting it
NextCrypt == New \/ Encrypt(1) \/ Decrypt(TRUE) \/ Return

SpecCrypt == Init /\ [][NextCrypt]_vars

\* sequences of encrypt calls
NextSeal == New \/ Encrypt(MaxEncrypts) \/ Return

SpecSeal == Init /\ [][NextSeal]_vars

\* ================================================================ claims
Last == sent[Len(sent)]

IsDecrypt == res.op = "decrypt"

\* the untouched last envelope, handed to the keyring it was encrypted to
Intended == IsDecrypt /\ res.tamper.kind = "none" /\ res.self = Last.peer

\* C1: the envelope encrypt returns for plaintext p and B's public keyring is
\* decrypted by B to exactly p, and decrypt derives the key encrypt derived.
C1_RoundTrip ==
  Intended =>
    /\ res.call.out = Returned(Last.plain)
    /\ res.call.key = Last.call.key

C1_Witness ==
  /\ Intended
  /\ Len(keyrings) >= 2
  /\ Last.plain # <<>>
  /\ res.call.out = Returned(Last.plain)

C1_WitnessEmpty ==
  Intended /\ Last.plain = <<>> /\ res.call.out.kind = "returned"

\* an envelope decrypt cannot open: the ciphertext or the ephemeral key was
\* modified, the ephemeral key field is short, or the keyring is not the one
\* the envelope was encrypted to
Unopenable ==
  /\ IsDecrypt
  /\ \/ res.tamper.kind \in {"data_byte", "eph_byte"}
     \/ Len(res.enc.ephemeral_pubkey) < KEY_LEN
     \/ res.self # Last.peer

\* C2: decrypt of an envelope that cannot be opened gives the caller an
\* explicit decryption-failed error value, and no plaintext bytes.
C2_ExplicitError ==
  Unopenable =>
    /\ res.call.out.kind = "error"
    /\ res.call.out.value = <<>>

\* C3: every encrypt call uses an ephemeral keypair no other call and no
\* keyring uses, so no (derived key, nonce) pair seals twice.
C3_FreshEphemeral ==
  /\ \A i \in DOMAIN sent : \A j \in DOMAIN sent :
       i # j =>
         /\ sent[i].call.ephemeral_key # sent[j].call.ephemeral_key
         /\ sent[i].call.out.ephemeral_pubkey # sent[j].call.out.ephemeral_pubkey
         /\ <<sent[i].call.key, sent[i].call.nonce>>
              # <<sent[j].call.key, sent[j].call.nonce>>
  /\ \A i \in DOMAIN sent : \A k \in Ring :
       sent[i].call.ephemeral_key # keyrings[k].x25519_secret

\* two calls with the same plaintext and the same recipient
C3_Witness ==
  /\ Len(sent) >= 2
  /\ sent[1].peer = sent[2].peer
  /\ sent[1].plain = sent[2].plain
  /\ sent[1].call.out.data # sent[2].call.out.data

\* the untouched envelope, handed to a keyring with another agreement key
WrongKeyring ==
  /\ IsDecrypt
  /\ res.tamper.kind = "none"
  /\ keyrings[res.self].x25519_secret # keyrings[Last.peer].x25519_secret

\* C4: decrypting an envelope with a keyring other than the recipient's
\* fails on authentication and returns no bytes.
C4_WrongKeyFails == WrongKeyring => res.call.out = Panicked("opening failed")

C4_Witness == WrongKeyring /\ Last.plain # <<>> /\ res.call.out.kind = "panic"

\* one byte of the ciphertext field changed, handed to the recipient
DataTampered ==
  /\ IsDecrypt
  /\ res.tamper.kind = "data_byte"
  /\ res.self = Last.peer
  /\ res.enc.data # Last.call.out.data

\* C5: changing any one byte of the ciphertext field, body or tag, makes the
\* recipient's decrypt fail.
C5_TamperEvident == DataTampered => res.call.out = Panicked("opening failed")

\* a changed byte of the body
C5_Witness ==
  /\ DataTampered
  /\ res.tamper.pos <= Len(Last.plain)
  /\ res.call.out.kind = "panic"

\* a changed byte of the tag
C5_WitnessTag ==
  /\ DataTampered
  /\ res.tamper.pos = Len(res.enc.data)
  /\ Len(res.enc.data) = Len(Last.plain) + TAG_LEN
  /\ res.call.out.kind = "panic"

IsVerify == res.op = "verify"

\* verify is handed the keyring's own signature of the message
Genuine ==
  /\ IsVerify
  /\ res.edit.kind = "none"
  /\ res.signer = res.self
  /\ res.signed = res.bytes

\* C6: a keyring's public half verifies the keyring's signature of any
\* message, and sign returns a signature, never a failure.
C6_SignVerify ==
  /\ Genuine => res.out = [panic |-> FALSE, ret |-> TRUE]
  /\ res.op = "sign" =>
       /\ res.out.kind = "returned"
       /\ Len(res.out.value) = SIG_LEN

C6_Witness == Genuine /\ res.bytes # <<>> /\ res.out.ret

C6_WitnessEmpty == Genuine /\ res.bytes = <<>> /\ res.out.ret

\* the signature handed to verify is not the keyring's signature of the message
Forged == IsVerify /\ res.signature # sign(keyrings[res.self], res.bytes)

\* C7: verify returns false, without panicking, for every signature that is
\* not the genuine one: a flipped bit, another message, another keyring, a
\* wrong length.
C7_VerifyRejects == Forged => res.out = [panic |-> FALSE, ret |-> FALSE]

C7_Witness ==
  /\ Forged
  /\ res.edit.kind = "flip"
  /\ res.signer = res.self
  /\ res.signed = res.bytes
  /\ ~res.out.ret

C7_WitnessLength == Forged /\ Len(res.signature) # SIG_LEN /\ ~res.out.ret

C7_WitnessOtherKeyring ==
  Forged /\ res.edit.kind = "none" /\ res.signer # res.self
    /\ res.signed = res.bytes /\ ~res.out.ret

\* the cached public keyring is the public projection of the secret material
Projected(kr) ==
  /\ kr.ed25519_keypair = Ed25519KeyPair(kr.ed25519_seed)
  /\ kr.pubkey.ed25519_pubkey = Ed25519KeyPair(kr.ed25519_seed).public_key
  /\ kr.pubkey.x25519_pubkey = X25519Public(kr.x25519_secret)

\* C8: in every state the cached public keyring of every secret keyring is
\* the projection of its secret material, public_key returns it, and no
\* operation changes a field of a keyring once constructed.
C8_Immutable ==
  /\ [](\A k \in Ring : Projected(keyrings[k]))
  /\ [](res.op = "public_key" => res.out = keyrings[res.self].pubkey)
  /\ [][\A k \in Ring : k \in DOMAIN keyrings' /\ keyrings'[k] = keyrings[k]]_vars

C8_Witness ==
  /\ Len(keyrings) >= 2
  /\ sent # <<>>
  /\ res.op = "public_key"
  /\ Projected(keyrings[res.self])

\* a DER byte string read back as its sequence of (tag, value) fields
RECURSIVE ParseTLVs(_)
ParseTLVs(bytes) ==
  IF bytes = <<>> THEN <<>>
  ELSE IF Len(bytes) < 2 THEN <<[tag |-> -1, value |-> <<>>]>>
  ELSE
    LET first == bytes[2]
        header == IF first < 128 THEN 2 ELSE 2 + (first - 128)
        length == IF first < 128 THEN first
                  ELSE IF first = 129 /\ Len(bytes) >= 3 THEN bytes[3]
                  ELSE IF first = 130 /\ Len(bytes) >= 4
                       THEN 256 * bytes[3] + bytes[4]
                  ELSE -1
    IN  IF length < 0 \/ header + length > Len(bytes)
        THEN <<[tag |-> -1, value |-> <<>>]>>
        ELSE <<[tag |-> bytes[1],
                value |-> SubSeq(bytes, header + 1, header + length)]>>
             \o ParseTLVs(Drop(bytes, header + length))

\* C9: serialize writes one sequence: magic, type tag for secret material,
\* version, then seed, signing public key, agreement secret and agreement
\* public key, 32 bytes each; the public keys are the projections of the seed
\* and the secret written with them.
C9_Layout ==
  res.op = "serialize" =>
    LET outer == ParseTLVs(res.stream)
        fields == ParseTLVs(outer[1].value)
        kr == keyrings[res.self]
    IN  /\ Len(outer) = 1
        /\ outer[1].tag = 48
        /\ Len(fields) = 7
        /\ fields[1] = [tag |-> 2, value |-> <<0>> \o MAGIC]
        /\ fields[2] = [tag |-> 2, value |-> <<TYPE_SECRET>>]
        /\ fields[3] = [tag |-> 2, value |-> <<VERSION>>]
        /\ \A i \in 4..7 :
             fields[i].tag = 4 /\ Len(fields[i].value) = 32
        /\ fields[4].value = kr.ed25519_seed
        /\ fields[5].value = Ed25519KeyPair(fields[4].value).public_key
        /\ fields[6].value = kr.x25519_secret
        /\ fields[7].value = X25519Public(fields[6].value)

C9_Witness ==
  /\ res.op = "serialize"
  /\ Len(keyrings) >= 2
  /\ Len(res.stream) > 4 * 32

\* C10: the outcome of decrypt is the same whatever sender public keyring is
\* passed, and the envelope any keyring's encrypt builds for plaintext p and
\* B's public keyring is the same envelope, which B decrypts to p.
C10_NoSenderAuth ==
  /\ IsDecrypt =>
       \A s \in Ring :
         decrypt(keyrings[res.self], res.enc, public_key(keyrings[s])).out
           = res.call.out
  /\ Intended =>
       /\ \A k \in Ring :
            encrypt(keyrings[k], Last.plain, public_key(keyrings[Last.peer]),
                    Last.rng).out = res.enc
       /\ res.call.out = Returned(Last.plain)

\* decrypt succeeds although the sender passed is not the recipient
C10_Witness ==
  /\ Intended
  /\ res.sender # res.self
  /\ res.call.out.kind = "returned"

====
